---- MODULE Spec2Model ----
(***************************************************************************)
(* Model of the Shebe Zed extension (extensions/zed/src/lib.rs): the       *)
(* platform-to-asset resolution and the binary provisioning sequence of    *)
(* ShebeExtension, together with the host functions it calls               *)
(* (latest_github_release, current_platform, download_file,                *)
(* make_file_executable).  Strings are modelled as strings, format! as     *)
(* concatenation.                                                          *)
(***************************************************************************)
EXTENDS Naturals, Sequences, FiniteSets, TLC

\* ------------------------------------------------------------------ bounds
NumCallers == 2
MaxCalls == 3
MaxFairCalls == 2

Callers == 1..NumCallers

None == "None"

\* ------------------------------------------------------- host environment
Oses == {"Mac", "Linux", "Windows"}
Architectures == {"Aarch64", "X8664", "X86"}
Platforms == Oses \X Architectures

Versions == {"v0.3.1", "v1.2.3"}

FeedErrors == {"feed: network error", "feed: HTTP 403"}
DownloadErrors == {"download: truncated archive"}
ChmodErrors == {"chmod: no such file"}

\* The working directories the process may be in when a call reads it (the
\* root among them), and the errors of the operating system when it cannot
\* be read (it was removed).
Cwds == {"/", "/work"}
CwdErrors ==
    {"Os { code: 2, kind: NotFound, message: \"No such file or directory\" }"}

Repo == "rhobimd-oss/shebe"

\* An asset of a release, as the feed publishes it.
Asset(name, host) ==
    [name |-> name, download_url |-> "https://" \o host \o "/" \o name]

OtherVersion(v) == CHOOSE w \in Versions : w # v

\* The asset lists a release of version v may carry: all three supported
\* builds, one name listed twice; names that differ from every resolved name
\* of v by platform, version or suffix; for v0.3.1 also the two assets of the
\* end-to-end scenario.
AssetLists(v) ==
    { << Asset("shebe-" \o v \o "-darwin-x86_64.tar.gz", "dl"),
         Asset("shebe-" \o v \o "-darwin-aarch64.tar.gz", "dl"),
         Asset("shebe-" \o v \o "-linux-x86_64-musl.tar.gz", "dl"),
         Asset("shebe-" \o v \o "-darwin-x86_64.tar.gz", "mirror") >>,
      << Asset("shebe-" \o v \o "-linux-x86_64.tar.gz", "dl"),
         Asset("shebe-" \o OtherVersion(v) \o "-darwin-aarch64.tar.gz", "dl"),
         Asset("shebe-" \o v \o "-darwin-x86_64-musl.tar.gz", "dl"),
         Asset("shebe-" \o v \o "-linux-aarch64-musl.tar.gz", "dl") >> }
    \cup
    IF v = "v0.3.1"
    THEN { << Asset("shebe-" \o v \o "-darwin-aarch64.tar.gz", "dl"),
              Asset("shebe-" \o v \o "-linux-x86_64-musl.tar.gz", "dl") >> }
    ELSE {}

Releases ==
    UNION { { [version |-> v, assets |-> l] : l \in AssetLists(v) } : v \in Versions }

\* ----------------------------------------------------------- zed::Result
Ok(v) == [ok |-> TRUE, val |-> v]
Err(fmt, args) == [ok |-> FALSE, fmt |-> fmt, args |-> args]

\* ------------------------------------------------- get_or_download_binary
\* The Windows arm yields a token instead of returning the error.
os_str_windows(os) ==
    CASE os = "Mac" -> Ok("darwin")
      [] os = "Linux" -> Ok("linux")
      [] os = "Windows" -> Ok("windows")

\* match os { Mac => "darwin", Linux => "linux", Windows => return Err }
os_str(os) ==
    CASE os = "Mac" -> Ok("darwin")
      [] os = "Linux" -> Ok("linux")
      [] os = "Windows" -> Err("shebe does not support Windows", << >>)

\* The Aarch64 arm without its check of the operating system.
arch_str_any_aarch64(arch, os_s) ==
    CASE arch = "Aarch64" -> Ok("aarch64")
      [] arch = "X8664" -> Ok("x86_64")
      [] arch = "X86" -> Err("shebe does not support 32-bit x86", << >>)

\* The X86 arm returning the message of the Aarch64 arm.
arch_str_one_message(arch, os_s) ==
    CASE arch = "Aarch64" ->
            IF os_s = "linux"
            THEN Err("shebe does not support Linux ARM", << >>)
            ELSE Ok("aarch64")
      [] arch = "X8664" -> Ok("x86_64")
      [] arch = "X86" -> Err("shebe does not support Linux ARM", << >>)

\* match arch { Aarch64 => (Err on linux | "aarch64"), X8664 => "x86_64", X86 => Err }
arch_str(arch, os_s) ==
    CASE arch = "Aarch64" ->
            IF os_s = "linux"
            THEN Err("shebe does not support Linux ARM", << >>)
            ELSE Ok("aarch64")
      [] arch = "X8664" -> Ok("x86_64")
      [] arch = "X86" -> Err("shebe does not support 32-bit x86", << >>)

\* The suffix appended whatever the operating system.
suffix_always(os_s) == "-musl"

\* let suffix = if os_str == "linux" { "-musl" } else { "" }
suffix(os_s) == IF os_s = "linux" THEN "-musl" ELSE ""

\* format!("shebe-{}-{}-{}{}.tar.gz", release.version, os_str, arch_str, suffix)
asset_name(version, os_s, arch_s) ==
    "shebe-" \o version \o "-" \o os_s \o "-" \o arch_s \o suffix(os_s) \o ".tar.gz"

\* The first asset of the release, whatever its name.
find_first(assets, name) ==
    IF assets = << >> THEN [some |-> FALSE] ELSE [some |-> TRUE, val |-> assets[1]]

\* release.assets.iter().find(|a| a.name == asset_name)
find(assets, name) ==
    LET hits == { i \in DOMAIN assets : assets[i].name = name }
    IN  IF hits = {} THEN [some |-> FALSE]
        ELSE [some |-> TRUE,
              val |-> assets[CHOOSE i \in hits : \A j \in hits : i <= j]]

\* The error without the name that was looked up.
asset_not_found_unnamed(name) == Err("no release asset matching", << >>)

\* .ok_or_else(|| format!("no release asset matching '{}'", asset_name))
asset_not_found(name) == Err("no release asset matching '{}'", << name >>)

\* One directory for every version.
extract_dir_shared(version) == "shebe"

\* format!("shebe-{}", release.version)
extract_dir(version) == "shebe-" \o version

\* The path of the binary under another file name.
binary_path_other(dir) == dir \o "/shebe"

\* format!("{}/shebe-mcp", extract_dir)
binary_path(dir) == dir \o "/shebe-mcp"

\* The code of get_or_download_binary between the return of
\* latest_github_release and the call of download_file.
resolve(release, platform) ==
    LET o == os_str(platform[1]) IN
    IF ~o.ok THEN o ELSE
    LET a == arch_str(platform[2], o.val) IN
    IF ~a.ok THEN a ELSE
    LET n == asset_name(release.version, o.val, a.val)
        hit == find(release.assets, n)
    IN  IF ~hit.some THEN asset_not_found(n)
        ELSE Ok([asset_name |-> n,
                 download_url |-> hit.val.download_url,
                 extract_dir |-> extract_dir(release.version)])

\* tests/github_release.rs: expected_asset_name(version, os, arch)
expected_asset_name(version, os, arch) ==
    LET sfx == IF os = "linux" THEN "-musl" ELSE ""
    IN  "shebe-" \o version \o "-" \o os \o "-" \o arch \o sfx \o ".tar.gz"

\* env::current_dir(): the working directory at the time of the call, or the
\* error of the system.
current_dir == { Ok(d) : d \in Cwds } \cup { Err(e, << >>) : e \in CwdErrors }

\* Path::is_absolute and the test of PathBuf::push for a trailing separator.
is_absolute(path) == Len(path) >= 1 /\ SubSeq(path, 1, 1) = "/"
need_sep(base) == Len(base) >= 1 /\ SubSeq(base, Len(base), Len(base)) # "/"

\* The separator inserted whatever base ends in.
join_always_sep(base, path) == base \o "/" \o path

\* Path::join: an absolute path replaces base; otherwise path is appended,
\* after a separator unless base is empty or already ends in one.
join(base, path) ==
    IF is_absolute(path) THEN path
    ELSE IF need_sep(base) THEN base \o "/" \o path
    ELSE base \o path

\* Result::unwrap() on Err(e): the call panics with e and yields no result
\* (the message of the panic, without its backquotes).
unwrap_failed(e) ==
    [ok |-> FALSE,
     fmt |-> "called Result::unwrap() on an Err value: {}",
     args |-> << e.fmt >>]

\* The call ended by a panic instead of returning.
panicked(res) ==
    ~res.ok /\ res.fmt = "called Result::unwrap() on an Err value: {}"

\* env::current_dir().unwrap().join(&binary_path), for the outcome dir of
\* env::current_dir(): the joined path, or the panic of unwrap.
full_path(dir, path) ==
    IF dir.ok THEN Ok(join(dir.val, path)) ELSE unwrap_failed(dir)

\* ------------------------------------------------------------------ state
VARIABLES
    platform,            \* what zed::current_platform() returns
    cached_binary_path,  \* ShebeExtension.cached_binary_path
    pc,                  \* per caller: the host call its call is waiting for
    frame,               \* per caller: the locals of its call in progress
    trace,               \* per caller: host calls made by its call in progress
    log,                 \* the calls that ended (returned or panicked), in order
    extracted,           \* file system: directories holding an unpacked archive
    executable,          \* file system: paths whose owner-execute bit is set
    cache_writes,        \* the values assigned to cached_binary_path, in order
    feed                 \* release feed: the latest version, or AnyVersion

vars == << platform, cached_binary_path, pc, frame, trace, log,
           extracted, executable, cache_writes, feed >>

\* The feed is left open: a query may return a release of any version.
AnyVersion == "any"

\* The versions in the order of their publication.
VersionOrder == << "v0.3.1", "v1.2.3" >>

Newer(v, w) ==
    \E i, j \in DOMAIN VersionOrder :
        VersionOrder[i] = v /\ VersionOrder[j] = w /\ i > j

\* The releases a query of the feed may return.
Published ==
    IF feed = AnyVersion THEN Releases
    ELSE { rel \in Releases : rel.version = feed }

\* ShebeExtension::new, on any platform.
Loaded ==
    /\ platform \in Platforms
    /\ cached_binary_path = None
    /\ pc = [c \in Callers |-> "idle"]
    /\ frame = [c \in Callers |-> [at |-> "idle"]]
    /\ trace = [c \in Callers |-> << >>]
    /\ log = << >>
    /\ extracted = {}
    /\ executable = {}
    /\ cache_writes = << >>

Init == Loaded /\ feed = AnyVersion

Started == Len(log) + Cardinality({ c \in Callers : pc[c] # "idle" })

\* Callers are numbered in the order of their first call.
HasCalled(d) == pc[d] # "idle" \/ \E i \in DOMAIN log : log[i].caller = d
InOrder(c) == \A d \in Callers : d < c => HasCalled(d)

\* One host call of a provisioning call: the function, its arguments, and
\* what it returned (out: the release on Ok of the feed, the error on Err).
Event(op, arg, r, out) == [op |-> op, arg |-> arg, ok |-> r.ok, out |-> out]

\* A call shares the extension with a call in progress of another caller.
shared_borrow(c) == TRUE

\* context_server_command takes &mut self: a call starts only while no other
\* call on the extension is in progress.
exclusive_borrow(c) == \A d \in Callers : pc[d] = "idle"

\* The call of c ends: get_or_download_binary returned binary, and
\* context_server_command returns res or, when res is a panic, unwinds; cwd
\* holds what env::current_dir() gave the call, if the call came to read it.
Return(c, binary, cwd, res, tr) ==
    /\ log' = Append(log, [caller |-> c, binary |-> binary, cwd |-> cwd,
                           res |-> res, trace |-> tr, feed |-> feed])
    /\ pc' = [pc EXCEPT ![c] = "idle"]
    /\ frame' = [frame EXCEPT ![c] = [at |-> "idle"]]
    /\ trace' = [trace EXCEPT ![c] = << >>]

\* A failing step that has already written the path it was working on.
propagate_caching(c, err, tr) ==
    /\ cached_binary_path' =
          IF frame[c].at = "make_file_executable"
          THEN frame[c].binary_path ELSE cached_binary_path
    /\ cache_writes' =
          IF frame[c].at = "make_file_executable"
          THEN Append(cache_writes, frame[c].binary_path) ELSE cache_writes
    /\ Return(c, err, << >>, err, tr)

\* A failing step that is run again instead of ending the call.
propagate_retry(c, err, tr) ==
    /\ trace' = [trace EXCEPT ![c] = tr]
    /\ UNCHANGED << cached_binary_path, cache_writes, pc, frame, log >>

\* A failing step that waits instead of ending the call.
propagate_waits(c, err, tr) ==
    UNCHANGED << cached_binary_path, cache_writes, pc, frame, trace, log >>

\* A failing step whose error is replaced by a general one.
propagate_wrapped(c, err, tr) ==
    /\ UNCHANGED << cached_binary_path, cache_writes >>
    /\ LET wrapped == Err("failed to provision shebe: {}", << err.fmt >>)
       IN  Return(c, wrapped, << >>, wrapped, tr)

\* The ? operator: the error of a step is the result of get_or_download_binary
\* and of context_server_command; the cache is not written.
propagate(c, err, tr) ==
    /\ UNCHANGED << cached_binary_path, cache_writes >>
    /\ Return(c, err, << >>, err, tr)

\* The path is returned without being stored.
return_unstored(c, path, tr) ==
    /\ UNCHANGED << cached_binary_path, cache_writes >>
    /\ \E dir \in current_dir :
          Return(c, Ok(path), << dir >>, full_path(dir, path), tr)

\* The path is stored only while the cache is empty.
store_if_empty(c, path, tr) ==
    /\ IF cached_binary_path = None
       THEN /\ cached_binary_path' = path
            /\ cache_writes' = Append(cache_writes, path)
       ELSE UNCHANGED << cached_binary_path, cache_writes >>
    /\ \E dir \in current_dir :
          Return(c, Ok(path), << dir >>, full_path(dir, path), tr)

\* get_or_download_binary returned Ok(path): the rest of context_server_command
\* stores the path, reads the working directory and returns the command, or
\* panics, with the path stored, when the working directory cannot be read.
store_and_return(c, path, tr) ==
    /\ cached_binary_path' = path
    /\ cache_writes' = Append(cache_writes, path)
    /\ \E dir \in current_dir :
          Return(c, Ok(path), << dir >>, full_path(dir, path), tr)

\* The cache is taken to be empty whatever it holds.
cache_miss_always == FALSE

\* if let Some(path) = &self.cached_binary_path
cache_hit == cached_binary_path # None

\* context_server_command is called; get_or_download_binary looks at the cache
\* and on a miss calls zed::latest_github_release.
context_server_command(c) ==
    /\ pc[c] = "idle"
    /\ Started < MaxCalls
    /\ InOrder(c)
    /\ exclusive_borrow(c)
    /\ IF cache_hit
       THEN store_and_return(c, cached_binary_path, << >>)
       ELSE /\ pc' = [pc EXCEPT ![c] = "latest_github_release"]
            /\ frame' = [frame EXCEPT ![c] = [at |-> "latest_github_release"]]
            /\ UNCHANGED << cached_binary_path, cache_writes, trace, log >>
    /\ UNCHANGED << platform, feed, extracted, executable >>

\* zed::latest_github_release returns; on Ok the platform is matched, the
\* asset name computed, the asset looked up and zed::download_file called.
latest_github_release(c) ==
    /\ pc[c] = "latest_github_release"
    /\ \E r \in { Err(e, << >>) : e \in FeedErrors } \cup { Ok(rel) : rel \in Published } :
         LET tr == Append(trace[c],
                      Event("latest_github_release", Repo, r,
                            IF r.ok THEN r.val ELSE r))
         IN  IF ~r.ok
             THEN propagate(c, r, tr)
             ELSE LET res == resolve(r.val, platform) IN
                  IF ~res.ok
                  THEN propagate(c, res, tr)
                  ELSE /\ pc' = [pc EXCEPT ![c] = "download_file"]
                       /\ frame' = [frame EXCEPT ![c] =
                             [at |-> "download_file",
                              asset_name |-> res.val.asset_name,
                              download_url |-> res.val.download_url,
                              extract_dir |-> res.val.extract_dir]]
                       /\ trace' = [trace EXCEPT ![c] = tr]
                       /\ UNCHANGED << cached_binary_path, cache_writes, log >>
    /\ UNCHANGED << platform, feed, extracted, executable >>

\* zed::download_file(&asset.download_url, &extract_dir, GzipTar) returns; on
\* Ok the binary path is computed and zed::make_file_executable called.
download_file(c) ==
    /\ pc[c] = "download_file"
    /\ \E r \in { Err(e, << >>) : e \in DownloadErrors } \cup { Ok(None) } :
         LET tr == Append(trace[c],
                      Event("download_file",
                            << frame[c].download_url, frame[c].extract_dir >>,
                            r, r))
         IN  IF ~r.ok
             THEN /\ propagate(c, r, tr)
                  /\ UNCHANGED extracted
             ELSE /\ extracted' = extracted \cup { frame[c].extract_dir }
                  /\ pc' = [pc EXCEPT ![c] = "make_file_executable"]
                  /\ frame' = [frame EXCEPT ![c] =
                        [at |-> "make_file_executable",
                         binary_path |-> binary_path(frame[c].extract_dir)]]
                  /\ trace' = [trace EXCEPT ![c] = tr]
                  /\ UNCHANGED << cached_binary_path, cache_writes, log >>
    /\ UNCHANGED << platform, feed, executable >>

\* zed::make_file_executable(&binary_path) returns; on Ok the path is returned,
\* stored in the cache and joined to the working directory.
make_file_executable(c) ==
    /\ pc[c] = "make_file_executable"
    /\ \E r \in { Err(e, << >>) : e \in ChmodErrors } \cup { Ok(None) } :
         LET tr == Append(trace[c],
                      Event("make_file_executable", frame[c].binary_path, r, r))
         IN  IF ~r.ok
             THEN /\ propagate(c, r, tr)
                  /\ UNCHANGED executable
             ELSE /\ executable' = executable \cup { frame[c].binary_path }
                  /\ store_and_return(c, frame[c].binary_path, tr)
    /\ UNCHANGED << platform, feed, extracted >>

Next ==
    \E c \in Callers :
        \/ context_server_command(c)
        \/ latest_github_release(c)
        \/ download_file(c)
        \/ make_file_executable(c)

Spec == Init /\ [][Next]_vars

\* The feed publishes a newer release.
publish ==
    /\ \E v \in Versions : Newer(v, feed) /\ feed' = v
    /\ UNCHANGED << platform, cached_binary_path, pc, frame, trace, log,
                    extracted, executable, cache_writes >>

FeedInit == Loaded /\ feed \in Versions

\* A host call that a call in progress waits for returns.
host_returns ==
    \E c \in Callers :
        \/ latest_github_release(c)
        \/ download_file(c)
        \/ make_file_executable(c)

FairNext ==
    \/ Started < MaxFairCalls /\ \E c \in Callers : context_server_command(c)
    \/ host_returns

\* The extension where every host call that was made returns, with Ok or
\* with an error.
FairSpec == Init /\ [][FairNext]_vars /\ WF_vars(host_returns)

FeedNext == publish \/ Next

\* The extension with a feed whose latest release moves to newer versions.
FeedSpec == FeedInit /\ [][FeedNext]_vars

\* ----------------------------------------------------------------- claims
Steps == << "latest_github_release", "download_file", "make_file_executable" >>

\* The host functions a call invoked, in order.
Ops(tr) == [k \in DOMAIN tr |-> tr[k].op]

\* The i-th ended call is the first one whose get_or_download_binary
\* returned Ok.
FirstSuccess(i) ==
    /\ log[i].binary.ok
    /\ \A j \in DOMAIN log : j < i => ~log[j].binary.ok

InProgress == { c \in Callers : pc[c] # "idle" }

C2_FailureLeavesUncached ==
    \A i \in DOMAIN log : ~log[i].binary.ok =>
        IF i = Len(log)
        THEN /\ cached_binary_path = None
             /\ \A c \in InProgress :
                   IF trace[c] = << >>
                   THEN pc[c] = "latest_github_release"
                   ELSE trace[c][1].op = "latest_github_release"
        ELSE /\ log[i + 1].trace # << >>
             /\ log[i + 1].trace[1].op = "latest_github_release"

C2_Witness ==
    \E i \in DOMAIN log :
        /\ i < Len(log)
        /\ ~log[i].binary.ok
        /\ Ops(log[i].trace) = Steps
        /\ Ops(log[i + 1].trace) = Steps

\* The platforms the claims call supported, and the tokens they name.
SupportedPlatforms ==
    { << "Mac", "Aarch64" >>, << "Mac", "X8664" >>, << "Linux", "X8664" >> }

OsToken == IF platform[1] = "Mac" THEN "darwin" ELSE "linux"
ArchToken == IF platform[2] = "Aarch64" THEN "aarch64" ELSE "x86_64"

WindowsError == Err("shebe does not support Windows", << >>)
LinuxArmError == Err("shebe does not support Linux ARM", << >>)
X86Error == Err("shebe does not support 32-bit x86", << >>)
UnsupportedErrors == { WindowsError, LinuxArmError, X86Error }

\* The call with trace tr queried the feed and got a release.
FeedOk(tr) == tr # << >> /\ tr[1].op = "latest_github_release" /\ tr[1].ok

\* C3 as claimed: on an unsupported platform a call makes no host call at
\* all and returns the unsupported-platform error.
C3_RejectedBeforeNetwork ==
    platform \notin SupportedPlatforms =>
        \A i \in DOMAIN log :
            /\ log[i].trace = << >>
            /\ log[i].res \in UnsupportedErrors

\* C3 amended: on an unsupported platform a call makes exactly one host call,
\* the feed query, and never a download or make-executable call; it returns
\* the unsupported-platform error when the feed returned a release, and the
\* feed's error when the feed failed.
C3_RejectedBeforeDownload ==
    platform \notin SupportedPlatforms =>
        /\ \A i \in DOMAIN log :
              /\ Ops(log[i].trace) = << "latest_github_release" >>
              /\ IF log[i].trace[1].ok
                 THEN log[i].res \in UnsupportedErrors
                 ELSE log[i].res = log[i].trace[1].out
        /\ \A c \in Callers :
              /\ pc[c] \in { "idle", "latest_github_release" }
              /\ trace[c] = << >>
        /\ extracted = {}
        /\ executable = {}

C3_Witness ==
    /\ platform \notin SupportedPlatforms
    /\ \E i, j \in DOMAIN log : log[i].trace[1].ok /\ ~log[j].trace[1].ok

\* C5: once the feed has returned a release, the platform is resolved to an
\* asset name (which is then looked up) exactly on the three supported
\* platforms; on the six others the call returns an unsupported-platform error
\* and neither a lookup, a download nor a make-executable call follows.
C5_SupportedExactly ==
    /\ \A i \in DOMAIN log : FeedOk(log[i].trace) =>
          IF platform \in SupportedPlatforms
          THEN /\ log[i].res \notin UnsupportedErrors
               /\ \/ Len(log[i].trace) > 1
                  \/ /\ ~log[i].res.ok
                     /\ log[i].res.fmt = "no release asset matching '{}'"
          ELSE /\ log[i].res \in UnsupportedErrors
               /\ Len(log[i].trace) = 1
    /\ \A c \in Callers :
          pc[c] \in { "download_file", "make_file_executable" }
              => platform \in SupportedPlatforms

C5_Witness ==
    /\ platform = << "Linux", "Aarch64" >>
    /\ \E i \in DOMAIN log : FeedOk(log[i].trace)

\* The asset names the calls computed, each with the version it was computed
\* for: those being downloaded, and those reported as not found.
ResolvedNames ==
    { << trace[c][1].out.version, frame[c].asset_name >> :
         c \in { d \in Callers : pc[d] = "download_file" } }
    \cup
    { << log[i].trace[1].out.version, log[i].res.args[1] >> :
         i \in { j \in DOMAIN log :
                   /\ FeedOk(log[j].trace)
                   /\ ~log[j].res.ok
                   /\ log[j].res.fmt = "no release asset matching '{}'" } }

\* C6: every asset name computed for version v on a supported platform is
\* "shebe-" v "-" os_token "-" arch_token suffix ".tar.gz", with suffix
\* "-musl" exactly for linux, and equals what expected_asset_name gives.
C6_AssetName ==
    \A p \in ResolvedNames :
        /\ platform \in SupportedPlatforms
        /\ p[2] = "shebe-" \o p[1] \o "-" \o OsToken \o "-" \o ArchToken
                     \o (IF OsToken = "linux" THEN "-musl" ELSE "") \o ".tar.gz"
        /\ p[2] = expected_asset_name(p[1], OsToken, ArchToken)
        /\ p[1] = "v1.2.3" =>
              p[2] = CASE platform = << "Mac", "X8664" >> ->
                            "shebe-v1.2.3-darwin-x86_64.tar.gz"
                       [] platform = << "Linux", "X8664" >> ->
                            "shebe-v1.2.3-linux-x86_64-musl.tar.gz"
                       [] platform = << "Mac", "Aarch64" >> ->
                            "shebe-v1.2.3-darwin-aarch64.tar.gz"

C6_Witness ==
    /\ platform = << "Linux", "X8664" >>
    /\ \E c \in Callers :
          /\ pc[c] = "download_file"
          /\ frame[c].asset_name = "shebe-v1.2.3-linux-x86_64-musl.tar.gz"

\* C7 as claimed: architecture x86 is rejected with the 32-bit x86 error on
\* every operating system.
C7_X86ReasonOnEveryOs ==
    \A i \in DOMAIN log :
        FeedOk(log[i].trace) /\ platform[2] = "X86" => log[i].res = X86Error

\* C7 amended: Windows is rejected with the Windows error whatever the
\* architecture, x86 included; x86 is rejected with the 32-bit x86 error on
\* mac and linux; (linux, aarch64) with the Linux ARM error; the three
\* errors differ.
C7_RejectionReasons ==
    /\ Cardinality(UnsupportedErrors) = 3
    /\ \A i \in DOMAIN log : FeedOk(log[i].trace) =>
          /\ platform[1] = "Windows" => log[i].res = WindowsError
          /\ platform[1] # "Windows" /\ platform[2] = "X86"
                => log[i].res = X86Error
          /\ platform = << "Linux", "Aarch64" >> => log[i].res = LinuxArmError

C7_Witness ==
    /\ platform = << "Windows", "X86" >>
    /\ \E i \in DOMAIN log : FeedOk(log[i].trace)

\* The ended calls that ran a fetch/extract sequence: their download returned.
Sequences == { i \in DOMAIN log : Len(log[i].trace) >= 2 }

Fetching == { c \in Callers : pc[c] \in { "download_file", "make_file_executable" } }

DownloadEvents ==
    { p \in (DOMAIN log) \X (1..3) :
         /\ p[2] \in DOMAIN log[p[1]].trace
         /\ log[p[1]].trace[p[2]].op = "download_file" }

\* Every caller has made its first call and no caller a second one; every
\* call that found the cache empty got the same version from the feed and
\* found its asset there, so that it ran a fetch/extract sequence.
FirstCallsOnOneVersion ==
    /\ Len(log) = NumCallers
    /\ \A i, j \in DOMAIN log : i # j => log[i].caller # log[j].caller
    /\ \A i \in DOMAIN log : log[i].trace # << >> => i \in Sequences
    /\ \A i, j \in Sequences :
          log[i].trace[1].out.version = log[j].trace[1].out.version

\* C4 as claimed: when N callers call for the first time and the feed returns
\* the same version to all, exactly one fetch/extract sequence is performed in
\* total and all N callers obtain the same path.
C4_ExactlyOneSequence ==
    FirstCallsOnOneVersion =>
        /\ Cardinality(DownloadEvents) = 1
        /\ \A i, j \in DOMAIN log :
              log[i].binary.ok /\ log[i].binary = log[j].binary

\* C4 amended: calls never overlap, so at most one fetch/extract sequence is
\* in progress at a time; a caller runs a sequence exactly when it finds the
\* cache empty, that is when the provisioning of every caller before it
\* failed, so every sequence but the last one is that of a call that failed;
\* once one caller's provisioning has succeeded no further sequence is run and
\* every caller from then on obtains the same binary path.
C4_SingleFlight ==
    /\ \A c, d \in Callers : pc[c] # "idle" /\ pc[d] # "idle" => c = d
    /\ \A i, j \in Sequences : i < j => ~log[i].binary.ok
    /\ \A i \in DOMAIN log : log[i].trace # << >> <=>
          \A j \in 1..(i - 1) : ~log[j].binary.ok
    /\ \A c \in Fetching : \A j \in DOMAIN log : ~log[j].binary.ok
    /\ \A i, j \in DOMAIN log :
          log[i].binary.ok /\ log[j].binary.ok => log[i].binary = log[j].binary

C4_Witness ==
    /\ FirstCallsOnOneVersion
    /\ Len(log[1].trace) = 3
    /\ ~log[1].binary.ok
    /\ Len(log[2].trace) = 3
    /\ log[2].binary.ok

\* The names of the assets of a release.
Names(assets) == { assets[k].name : k \in DOMAIN assets }

\* The i-th returned call got a release on a supported platform, and the
\* release has no asset of the resolved name.
NameAbsent(i) ==
    /\ FeedOk(log[i].trace)
    /\ platform \in SupportedPlatforms
    /\ expected_asset_name(log[i].trace[1].out.version, OsToken, ArchToken)
          \notin Names(log[i].trace[1].out.assets)

Args(res) == { res.args[k] : k \in DOMAIN res.args }

\* C8 as claimed: the asset-not-found error carries the computed asset name
\* and the names of the assets the release has.
C8_CarriesAvailableNames ==
    \A i \in DOMAIN log : NameAbsent(i) =>
        /\ ~log[i].res.ok
        /\ expected_asset_name(log[i].trace[1].out.version, OsToken, ArchToken)
              \in Args(log[i].res)
        /\ Names(log[i].trace[1].out.assets) \subseteq Args(log[i].res)

\* C8 amended: when the resolved name is absent from the release's assets the
\* call fails, without a download, with the error "no release asset matching
\* '<name>'" that carries the computed asset name and nothing else.
C8_CarriesComputedName ==
    \A i \in DOMAIN log : NameAbsent(i) =>
        /\ Len(log[i].trace) = 1
        /\ log[i].res =
              Err("no release asset matching '{}'",
                  << expected_asset_name(log[i].trace[1].out.version,
                                         OsToken, ArchToken) >>)

C8_Witness == \E i \in DOMAIN log : NameAbsent(i)

\* s begins with t, s ends with t.
StartsWith(s, t) == Len(s) >= Len(t) /\ SubSeq(s, 1, Len(t)) = t
EndsWith(s, t) == Len(s) >= Len(t) /\ SubSeq(s, Len(s) - Len(t) + 1, Len(s)) = t

\* path is the file rel below the directory cwd: it begins with cwd, ends
\* with a separator and rel, and holds nothing between the two.
PathUnder(path, cwd, rel) ==
    /\ StartsWith(path, cwd)
    /\ EndsWith(path, "/" \o rel)
    /\ Len(path) = Len(rel) + (IF EndsWith(cwd, "/") THEN Len(cwd) ELSE Len(cwd) + 1)

\* Call j of this session got version v from the feed, downloaded and
\* extracted into shebe-<v> and made shebe-<v>/shebe-mcp executable, all three
\* with success, and path is that file below the directory cwd.
Provisioned(j, path, cwd) ==
    /\ Ops(log[j].trace) = Steps
    /\ \A k \in 1..3 : log[j].trace[k].ok
    /\ LET dir == "shebe-" \o log[j].trace[1].out.version
       IN  /\ log[j].trace[2].arg[2] = dir
           /\ log[j].trace[3].arg = dir \o "/shebe-mcp"
           /\ EndsWith(path, "/shebe-mcp")
           /\ PathUnder(path, cwd, dir \o "/shebe-mcp")

\* C9: a call returns Ok only with a path that ends in "/shebe-mcp" inside
\* the version-scoped directory shebe-<v> (below the working directory of the
\* call) of a version v for which, in this session, the download/extraction
\* into shebe-<v> and the make-executable call on shebe-<v>/shebe-mcp both
\* returned with success; Ok is never returned by a call in which one of the
\* steps failed, nor with one of them never made in the session.
C9_SuccessMeansExecutable ==
    \A i \in DOMAIN log : log[i].res.ok =>
        /\ \A k \in DOMAIN log[i].trace : log[i].trace[k].ok
        /\ \E j \in 1..i : Provisioned(j, log[i].res.val, log[i].cwd[1].val)

C9_Witness ==
    \E i, j \in DOMAIN log :
        /\ log[i].res = Ok("/work/shebe-v0.3.1/shebe-mcp")
        /\ log[j].res = Ok("/shebe-v0.3.1/shebe-mcp")
        /\ log[j].trace = << >>

\* The downloads of version v that succeeded, in returned calls and in calls
\* in progress.
DownloadsIn(ev, dir) ==
    Cardinality({ p \in ev :
                     /\ log[p[1]].trace[p[2]].ok
                     /\ log[p[1]].trace[p[2]].arg[2] = dir })
    + Cardinality({ c \in Callers :
                     /\ Len(trace[c]) >= 2
                     /\ trace[c][2].ok
                     /\ trace[c][2].arg[2] = dir })

DownloadsOf(v) == DownloadsIn(DownloadEvents, "shebe-" \o v)

\* The returned calls that failed after they had downloaded version v.
FailedAfter(dir) ==
    Cardinality({ i \in DOMAIN log :
                     /\ ~log[i].binary.ok
                     /\ Len(log[i].trace) >= 2
                     /\ log[i].trace[2].ok
                     /\ log[i].trace[2].arg[2] = dir })

FailedAfterDownload(v) == FailedAfter("shebe-" \o v)

\* C10 as claimed: the archive of a version is downloaded at most once in a
\* session, also when a call fails after its download.
C10_DownloadedAtMostOnce == \A v \in Versions : DownloadsOf(v) <= 1

\* C10 amended: the archive of a version is downloaded once more than the
\* number of calls that failed after downloading it, at most: a call that
\* fails after its download makes the next call download again, a call that
\* succeeds ends all downloading.
C10_RedownloadOnlyAfterFailure ==
    LET ev == DownloadEvents IN
    /\ \A v \in Versions :
          LET dir == "shebe-" \o v
          IN  DownloadsIn(ev, dir) <= 1 + FailedAfter(dir)
    /\ \A p \in ev :
          \A i \in DOMAIN log : i < p[1] => ~log[i].binary.ok

C10_Witness ==
    /\ cached_binary_path # None
    /\ \E v \in Versions : DownloadsOf(v) = 2 /\ FailedAfterDownload(v) = 1

\* The traces of all calls: of the returned calls in the order of the log,
\* then of the calls in progress.
Calls == 1..(Len(log) + NumCallers)
TraceOf(n) == IF n <= Len(log) THEN log[n].trace ELSE trace[n - Len(log)]

\* The asset of the release that the call with trace tr must download: the
\* first one named as the platform's build of the release's version.
Wanted(tr) ==
    LET n == "shebe-" \o tr[1].out.version \o "-" \o OsToken \o "-" \o ArchToken
                \o (IF OsToken = "linux" THEN "-musl" ELSE "") \o ".tar.gz"
        assets == tr[1].out.assets
    IN  { assets[k] : k \in { m \in DOMAIN assets :
                                 /\ assets[m].name = n
                                 /\ \A l \in 1..(m - 1) : assets[l].name # n } }

\* C11: a download is always that of the asset named exactly as resolved (the
\* first of that name); when the release has no such asset the call makes no
\* download; for v0.3.1 with the darwin-aarch64 and linux-x86_64-musl assets
\* on mac/aarch64 the URL of the darwin-aarch64 asset is downloaded.
C11_ExactAssetDownloaded ==
    \A n \in Calls : LET tr == TraceOf(n) IN Len(tr) >= 1 /\ FeedOk(tr) =>
        /\ Len(tr) >= 2 => platform \in SupportedPlatforms
        /\ platform \in SupportedPlatforms =>
              LET w == Wanted(tr)
              IN  IF w = {} THEN Len(tr) = 1
                  ELSE Len(tr) >= 2 => \E a \in w : tr[2].arg[1] = a.download_url
        /\ ( /\ Len(tr) >= 2
             /\ platform = << "Mac", "Aarch64" >>
             /\ tr[1].out =
                  [version |-> "v0.3.1",
                   assets |-> << [name |-> "shebe-v0.3.1-darwin-aarch64.tar.gz",
                                  download_url |->
                                     "https://dl/shebe-v0.3.1-darwin-aarch64.tar.gz"],
                                 [name |-> "shebe-v0.3.1-linux-x86_64-musl.tar.gz",
                                  download_url |->
                                     "https://dl/shebe-v0.3.1-linux-x86_64-musl.tar.gz"] >>] )
              => tr[2].arg[1] = "https://dl/shebe-v0.3.1-darwin-aarch64.tar.gz"

C11_Witness ==
    /\ platform = << "Mac", "Aarch64" >>
    /\ \E i \in DOMAIN log :
          /\ log[i].res.ok
          /\ Len(log[i].trace) = 3
          /\ Len(log[i].trace[1].out.assets) = 2
          /\ log[i].trace[1].out.version = "v0.3.1"
          /\ log[i].trace[2].arg[1] = "https://dl/shebe-v0.3.1-darwin-aarch64.tar.gz"

\* A call's host calls are an initial part of the fixed order, each made
\* once, each after the one before it returned Ok.
StepOrder(tr) ==
    /\ Len(tr) <= 3
    /\ Ops(tr) = SubSeq(Steps, 1, Len(tr))
    /\ \A k \in 1..(Len(tr) - 1) : tr[k].ok

\* C12: on a cache miss a call queries the feed (and resolves and locates the
\* asset), downloads, makes executable and writes the cache in this order,
\* each step at most once and only after every earlier step succeeded.
C12_StepOrder ==
    /\ \A i \in DOMAIN log :
          /\ StepOrder(log[i].trace)
          /\ log[i].binary.ok /\ log[i].trace # << >> =>
                Len(log[i].trace) = 3 /\ log[i].trace[3].ok
          /\ log[i].trace = << >> =>
                \E j \in 1..(i - 1) : log[j].binary.ok
    /\ \A c \in Callers :
          /\ StepOrder(trace[c])
          /\ \A k \in DOMAIN trace[c] : trace[c][k].ok
          /\ IF pc[c] = "idle" THEN trace[c] = << >>
             ELSE pc[c] = Steps[Len(trace[c]) + 1]
    /\ cached_binary_path # None =>
          \E i \in DOMAIN log :
              /\ Len(log[i].trace) = 3
              /\ \A k \in 1..3 : log[i].trace[k].ok
              /\ log[i].trace[3].arg = cached_binary_path

C12_Witness ==
    \E i \in DOMAIN log :
        /\ log[i].binary.ok
        /\ Len(log[i].trace) = 3
        /\ cached_binary_path # None

\* C13: a host call that fails is the last step of its call and its error is
\* the call's result, unchanged; a rejection or a missing asset is followed by
\* no download and no make-executable call; a call with a failed step never
\* returns Ok.
C13_ErrorPropagated ==
    \A i \in DOMAIN log : log[i].trace # << >> =>
        LET tr == log[i].trace IN
        /\ \A k \in DOMAIN tr : ~tr[k].ok =>
              /\ k = Len(tr)
              /\ log[i].res = tr[k].out
              /\ ~log[i].res.ok
        /\ (tr[Len(tr)].ok /\ ~log[i].binary.ok) =>
              /\ Len(tr) = 1
              /\ log[i].res = log[i].binary
              /\ \/ log[i].res \in UnsupportedErrors
                 \/ log[i].res.fmt = "no release asset matching '{}'"
        /\ log[i].res.ok => \A k \in DOMAIN tr : tr[k].ok

C13_Witness ==
    \E i, j \in DOMAIN log :
        /\ Len(log[i].trace) = 2 /\ ~log[i].trace[2].ok
        /\ Len(log[j].trace) = 1 /\ ~log[j].trace[1].ok

\* The ended calls in which get_or_download_binary returned Ok.
OkCalls == { i \in DOMAIN log : log[i].binary.ok }

\* C14 as claimed: the cache slot is assigned at most once in a session.
C14_WrittenOnce == Len(cache_writes) <= 1

\* C14 amended: the cache slot is assigned by every call in which
\* get_or_download_binary returns Ok, the cache-hit calls included (also when
\* the call then panics for want of a working directory), and by no call whose
\* provisioning fails; every assignment after the first stores again the
\* value the first one stored, so the slot's value is set once.
C14_WrittenByEveryOkCall ==
    /\ Len(cache_writes) = Cardinality(OkCalls)
    /\ \A k \in DOMAIN cache_writes : cache_writes[k] = cache_writes[1]
    /\ IF cache_writes = << >>
       THEN cached_binary_path = None
       ELSE cached_binary_path = cache_writes[1]

C14_Witness ==
    /\ Len(cache_writes) = 2
    /\ panicked(log[1].res)
    /\ \E i \in DOMAIN log : log[i].res.ok /\ log[i].trace = << >>

\* C15: a call extracts into "shebe-" + the version the feed returned to it
\* and makes executable that directory + "/shebe-mcp"; calls that got
\* different versions use different directories, calls that got the same
\* version the same directory and path.
C15_VersionScopedDirectory ==
    /\ \A n \in Calls : LET tr == TraceOf(n) IN Len(tr) >= 2 =>
          /\ tr[2].arg[2] = "shebe-" \o tr[1].out.version
          /\ Len(tr) >= 3 =>
                tr[3].arg = "shebe-" \o tr[1].out.version \o "/shebe-mcp"
    /\ \A c \in Callers : pc[c] = "download_file" =>
          frame[c].extract_dir = "shebe-" \o trace[c][1].out.version
    /\ \A n1, n2 \in { n \in Calls : Len(TraceOf(n)) >= 2 } :
          LET t1 == TraceOf(n1)
              t2 == TraceOf(n2)
          IN  /\ (t1[1].out.version = t2[1].out.version)
                    <=> (t1[2].arg[2] = t2[2].arg[2])
              /\ (Len(t1) = 3 /\ Len(t2) = 3
                    /\ t1[1].out.version = t2[1].out.version)
                    => t1[3].arg = t2[3].arg

C15_Witness ==
    \E i, j, k \in DOMAIN log :
        /\ Len(log[i].trace) >= 2
        /\ Len(log[j].trace) >= 2
        /\ Len(log[k].trace) >= 2
        /\ i < j
        /\ log[i].trace[1].out.version = log[j].trace[1].out.version
        /\ log[i].trace[1].out.version # log[k].trace[1].out.version

\* C16: if every host call returns, every call of context_server_command
\* returns, with Ok or with an error.
C16_CallsTerminate ==
    \A c \in Callers :
        (pc[c] # "idle") ~> (pc[c] = "idle" /\ \E i \in DOMAIN log : log[i].caller = c)

C16_Witness ==
    /\ \E c \in Callers : pc[c] = "make_file_executable"
    /\ \E i \in DOMAIN log : Len(log[i].trace) = 3

C18_CacheHoldsProvisionedPath ==
    cached_binary_path # None =>
        /\ platform \in SupportedPlatforms
        /\ \E i \in DOMAIN log : \E v \in Versions :
              LET tr == log[i].trace IN
              /\ cached_binary_path = "shebe-" \o v \o "/shebe-mcp"
              /\ log[i].binary = Ok(cached_binary_path)
              /\ Ops(tr) = Steps
              /\ \A k \in 1..3 : tr[k].ok
              /\ tr[1].out.version = v
              /\ \E a \in Wanted(tr) :
                    tr[2].arg = << a.download_url, "shebe-" \o v >>
              /\ tr[3].arg = cached_binary_path

C18_Witness ==
    /\ cached_binary_path = "shebe-v1.2.3/shebe-mcp"
    /\ Len(log[1].trace) = 3
    /\ ~log[1].binary.ok
    /\ log[1].trace[1].out.version = "v0.3.1"

====
